---- MODULE Spec2Model ----
(***************************************************************************)
(* A model of spotify/artist.py: the Artist and ArtistBrowser wrappers of  *)
(* native libspotify objects, the native completion callback              *)
(* _artistbrowse_complete_callback, and the consumer threads that wait in  *)
(* load().                                                                 *)
(*                                                                         *)
(* The native SDK is the environment: it owns the native objects, counts   *)
(* their references, completes a browse request at a time of its choosing  *)
(* and then invokes the completion callback, at most once per request, on  *)
(* its own thread.  While a request is in flight the SDK keeps the native  *)
(* object itself; rc counts the references held on the binding's side.     *)
(*                                                                         *)
(* Objects are freed by the garbage collector at a time of its choosing,   *)
(* once nothing but a reference cycle refers to them.  utils.load and      *)
(* utils.Sequence are modelled by their contract: load returns the object  *)
(* when is_loaded reads true, fails with Timeout when the deadline has     *)
(* passed, and fails with BackendError when the session is down before     *)
(* the deadline; a Sequence holds one reference from creation to release.  *)
(***************************************************************************)
EXTENDS Naturals, Integers, FiniteSets, Sequences, Bags, TLC

\* ---------------------------------------------------------------- bounds
MaxBrowsers == 2
MaxNative == 1
MaxThreads == 1
MaxTimeout == 1
MaxArtists == 1
MaxSeqs == 2
MaxLoose == 1
MaxTemps == 1
MaxItems == 1

Browsers == 1 .. MaxBrowsers
Natives == 1 .. MaxNative
Threads == 1 .. MaxThreads
ArtistSlots == 1 .. MaxArtists

\* ffi.NULL; also "no native object" in a wrapper slot that was never built
NULL == 0

\* timeout=None of load(): no deadline
NoTimeout == MaxTimeout + 1

VARIABLES
    art_rc,     \* reference count of the native artist object
    temps,      \* native artist references of collected Artists from a URI, the
                \* ones their Link.as_artist wrappers took, not yet released
    artists,    \* Artist wrapper slot -> [state, pins, delta]
    nused,      \* native browse object -> whether the SDK has created it
    rc,         \* native browse object -> reference count
    nloaded,    \* native browse object -> sp_artistbrowse_is_loaded
    nerror,     \* native browse object -> sp_artistbrowse_error
    npending,   \* native browse object -> userdata token of its request, or NULL
    nfired,     \* native browse object -> the SDK has invoked its callback
    loose,      \* native browse object -> references owned outside any wrapper
    nseq,       \* native browse object -> live utils.Sequence objects on it
    browser,    \* ArtistBrowser slot -> its fields
    halive,     \* handle (named after its browser) -> the cffi handle object exists
    htuple,     \* handle -> the (callback, browser) tuple ffi.new_handle keeps
    cb,         \* the SDK thread's position inside the completion callback
    called,     \* browser -> what the user callback saw, in call order
    warned,     \* the callback has logged its warning
    thr,        \* consumer thread -> its position in load()
    session,    \* state of the client session
    seqs,       \* the live utils.Sequence objects, a bag of their fields
    ret         \* what the last read of a collection property returned

vars == << art_rc, temps, artists, nused, rc, nloaded, nerror, npending, nfired,
           loose, nseq, browser, halive, htuple, cb, called, warned, thr,
           session, seqs, ret >>

artVars == << art_rc, temps, artists >>
natVars == << nused, rc, nloaded, nerror, npending, nfired, loose, nseq >>
brVars == << browser, halive, htuple >>
cbVars == << cb, called, warned >>
thrVars == << thr, session >>
seqVars == << seqs, ret >>

\* ------------------------------------------------------------ initial state
NoBrowser == [state |-> "free", sp |-> NULL, event |-> FALSE, handles |-> {},
              held |-> FALSE, kind |-> "none", delta |-> 0]

IdleCb == [pc |-> "idle", h |-> NULL, n |-> NULL, callback |-> "None", browser |-> NULL]

IdleThread == [pc |-> "idle", b |-> NULL, left |-> 0, res |-> "none", ret |-> NULL,
               waited |-> FALSE]

NoArtist == [state |-> "free", pins |-> 0, delta |-> 0]

NoRet == [b |-> NULL, prop |-> "none", type |-> "none"]

\* nothing has been built
InitRest ==
    /\ nused = [n \in Natives |-> FALSE]
    /\ rc = [n \in Natives |-> 0]
    /\ nloaded = [n \in Natives |-> FALSE]
    /\ nerror = [n \in Natives |-> "OK"]
    /\ npending = [n \in Natives |-> NULL]
    /\ nfired = [n \in Natives |-> FALSE]
    /\ loose = [n \in Natives |-> 0]
    /\ nseq = [n \in Natives |-> 0]
    /\ browser = [b \in Browsers |-> NoBrowser]
    /\ halive = [h \in Browsers |-> FALSE]
    /\ htuple = [h \in Browsers |-> << "None", NULL >>]
    /\ cb = IdleCb
    /\ called = [b \in Browsers |-> << >>]
    /\ warned = FALSE
    /\ thr = [t \in Threads |-> IdleThread]
    /\ session = "ok"
    /\ seqs = EmptyBag
    /\ ret = NoRet

Init ==
    /\ art_rc = 0
    /\ temps = 0
    /\ artists = [a \in ArtistSlots |-> NoArtist]
    /\ InitRest

\* the consumer has built one Artist from an artist URI
InitArtist ==
    /\ art_rc = 2
    /\ temps = 0
    /\ artists = [a \in ArtistSlots |->
                     IF a = 1 THEN [state |-> "alive", pins |-> 1, delta |-> 1]
                              ELSE NoArtist]
    /\ InitRest

\* ------------------------------------------------------------------ Artist
\* spotify.Link(uri).as_artist(): the native artist a URI denotes, or None
as_artist(uri) == IF uri = "artist" THEN "sp_artist" ELSE "None"

\* a new wrapper object gets the first slot that holds no live wrapper
NewArtist(a) ==
    /\ artists[a].state # "alive"
    /\ \A x \in ArtistSlots : x < a => artists[x].state = "alive"

\* a fault of the constructor: sp_artist_add_ref is reached before the test for None
ArtistFromUriUnchecked(a, uri) ==
    /\ NewArtist(a)
    /\ IF as_artist(uri) = "None"
         THEN /\ artists' = [artists EXCEPT ![a] = [NoArtist EXCEPT !.state = "failed"]]
              /\ art_rc' = art_rc + 1
              /\ temps' = temps
         ELSE /\ art_rc' = art_rc + 2
              /\ artists' = [artists EXCEPT ![a] =
                     [state |-> "alive", pins |-> 1, delta |-> 1]]
              /\ temps' = temps
    /\ UNCHANGED << seqVars, natVars, brVars, cbVars, thrVars >>

\* Artist.__init__(uri=...): the wrapper that as_artist returns holds a reference of
\* its own, and ffi.gc(artist._sp_artist, ...) keeps that wrapper's cdata while the
\* new Artist lives, so two references are held for the Artist
ArtistFromUri(a, uri) ==
    /\ NewArtist(a)
    /\ IF as_artist(uri) = "None"
         THEN \* ValueError, before sp_artist_add_ref: no wrapper is built
              /\ artists' = [artists EXCEPT ![a] = [NoArtist EXCEPT !.state = "failed"]]
              /\ UNCHANGED << art_rc, temps >>
         ELSE /\ art_rc' = art_rc + 2
              /\ artists' = [artists EXCEPT ![a] =
                     [state |-> "alive", pins |-> 1, delta |-> 1]]
              /\ temps' = temps
    /\ UNCHANGED << seqVars, natVars, brVars, cbVars, thrVars >>

\* Artist.__init__(sp_artist=...), as ArtistBrowser.artist does
ArtistFromNative(a, b) ==
    /\ NewArtist(a)
    /\ browser[b].state = "alive" /\ browser[b].held
    /\ art_rc' = art_rc + 1
    /\ artists' = [artists EXCEPT ![a] = [state |-> "alive", pins |-> 0, delta |-> 1]]
    /\ UNCHANGED << seqVars, temps, natVars, brVars, cbVars, thrVars >>

\* the Artist wrapper is collected: ffi.gc runs sp_artist_release, and the cdata of
\* the as_artist wrapper, if it kept one, is left to the collector
CollectArtist(a) ==
    /\ artists[a].state = "alive"
    /\ temps + artists[a].pins <= MaxTemps
    /\ art_rc' = art_rc - 1
    /\ temps' = temps + artists[a].pins
    /\ artists' = [artists EXCEPT ![a] =
           [state |-> "dead", pins |-> 0, delta |-> @.delta + art_rc' - art_rc]]
    /\ UNCHANGED << seqVars, natVars, brVars, cbVars, thrVars >>

\* the cdata of an as_artist wrapper is collected: ffi.gc runs sp_artist_release
CollectTemp ==
    /\ temps > 0
    /\ temps' = temps - 1
    /\ art_rc' = art_rc - 1
    /\ UNCHANGED << seqVars, artists, natVars, brVars, cbVars, thrVars >>

\* ----------------------------------------------------------- ArtistBrowser
\* threading.Event(): a new event is clear
NewEvent == FALSE

\* the native object sp_artistbrowse_create hands out: the first unused one
FreshNative == CHOOSE n \in Natives : ~nused[n] /\ \A m \in Natives : m < n => nused[m]

\* faults of is_loaded: the function object instead of its result; the state of
\* complete_event instead of the native state; the negation of that
is_loaded_always(b) == TRUE

is_loaded_by_event(b) == browser[b].event

is_loaded_inverted(b) == ~browser[b].event

\* ArtistBrowser.is_loaded
is_loaded(b) == nloaded[browser[b].sp]

\* ArtistBrowser.error
error(b) == nerror[browser[b].sp]

\* a fault of the constructor: add_ref is left True after sp_artistbrowse_create
BrowseAddRef(a, b, callback) ==
    /\ artists[a].state = "alive"
    /\ browser[b].state = "free" /\ \A x \in Browsers : x < b => browser[x].state # "free"
    /\ \E n \in Natives : ~nused[n]
    /\ LET n == FreshNative
       IN /\ halive' = [halive EXCEPT ![b] = TRUE]
          /\ htuple' = [htuple EXCEPT ![b] = << callback, b >>]
          /\ nused' = [nused EXCEPT ![n] = TRUE]
          /\ rc' = [rc EXCEPT ![n] = 2]
          /\ npending' = [npending EXCEPT ![n] = b]
          /\ browser' = [browser EXCEPT ![b] =
                 [state |-> "alive", sp |-> n, event |-> NewEvent, handles |-> {b},
                  held |-> TRUE, kind |-> "browse", delta |-> rc'[n] - rc[n]]]
    /\ UNCHANGED << seqVars, artVars, nloaded, nerror, nfired, loose, nseq, cbVars, thrVars >>

NewBrowser(b) == browser[b].state = "free" /\ \A x \in Browsers : x < b => browser[x].state # "free"

\* Artist.browse(type, callback): ArtistBrowser(artist=self, ...)
Browse(a, b, callback) ==
    /\ artists[a].state = "alive"
    /\ NewBrowser(b)
    /\ \E n \in Natives : ~nused[n]
    /\ LET n == FreshNative
       IN /\ halive' = [halive EXCEPT ![b] = TRUE]
          /\ htuple' = [htuple EXCEPT ![b] = << callback, b >>]
          /\ nused' = [nused EXCEPT ![n] = TRUE]
          /\ rc' = [rc EXCEPT ![n] = 1]
          /\ npending' = [npending EXCEPT ![n] = b]
          /\ browser' = [browser EXCEPT ![b] =
                 [state |-> "alive", sp |-> n, event |-> NewEvent, handles |-> {b},
                  held |-> TRUE, kind |-> "browse", delta |-> rc'[n] - rc[n]]]
    /\ UNCHANGED << seqVars, artVars, nloaded, nerror, nfired, loose, nseq, cbVars, thrVars >>

\* The constructor on the Artist.browse path, in two steps, for the threads that
\* run beside it.  Lines 143-154: the event, the empty set, the handle and its
\* insertion into _callback_handles.  One thread of the consumer builds browsers,
\* one at a time.  A fault of this step: the handle is not inserted.
BrowseBeginNoAdd(a, b, callback) ==
    /\ artists[a].state = "alive"
    /\ NewBrowser(b)
    /\ \A x \in Browsers : browser[x].state # "init"
    /\ \E n \in Natives : ~nused[n]
    /\ halive' = [halive EXCEPT ![b] = TRUE]
    /\ htuple' = [htuple EXCEPT ![b] = << callback, b >>]
    /\ browser' = [browser EXCEPT ![b] =
           [state |-> "init", sp |-> NULL, event |-> NewEvent, handles |-> {},
            held |-> TRUE, kind |-> "browse", delta |-> 0]]
    /\ UNCHANGED << seqVars, artVars, natVars, cbVars, thrVars >>

BrowseBegin(a, b, callback) ==
    /\ artists[a].state = "alive"
    /\ NewBrowser(b)
    /\ \A x \in Browsers : browser[x].state # "init"
    /\ \E n \in Natives : ~nused[n]
    /\ halive' = [halive EXCEPT ![b] = TRUE]
    /\ htuple' = [htuple EXCEPT ![b] = << callback, b >>]
    /\ browser' = [browser EXCEPT ![b] =
           [state |-> "init", sp |-> NULL, event |-> NewEvent, handles |-> {b},
            held |-> TRUE, kind |-> "browse", delta |-> 0]]
    /\ UNCHANGED << seqVars, artVars, natVars, cbVars, thrVars >>

\* lines 156-164: sp_artistbrowse_create is called with the handle as userdata, and
\* the native object it returns is kept without add_ref
BrowseCreate(b) ==
    /\ browser[b].state = "init"
    /\ \E n \in Natives : ~nused[n]
    /\ LET n == FreshNative
       IN /\ nused' = [nused EXCEPT ![n] = TRUE]
          /\ rc' = [rc EXCEPT ![n] = 1]
          /\ npending' = [npending EXCEPT ![n] = b]
          /\ browser' = [browser EXCEPT ![b].state = "alive", ![b].sp = n,
                                        ![b].delta = rc'[n] - rc[n]]
    /\ UNCHANGED << seqVars, artVars, nloaded, nerror, nfired, loose, nseq, halive,
                    htuple, cbVars, thrVars >>

\* a fault of the constructor: an adopting browser is taken to be loaded and its
\* complete_event is set
AdoptSetsEvent(b, n, add_ref) ==
    /\ browser[b].state = "free" /\ \A x \in Browsers : x < b => browser[x].state # "free"
    /\ nused[n] /\ rc[n] > 0
    /\ IF add_ref
         THEN /\ rc' = [rc EXCEPT ![n] = @ + 1]
              /\ loose' = loose
         ELSE /\ loose[n] > 0
              /\ loose' = [loose EXCEPT ![n] = @ - 1]
              /\ rc' = rc
    /\ browser' = [browser EXCEPT ![b] =
           [state |-> "alive", sp |-> n, event |-> TRUE, handles |-> {},
            held |-> TRUE, kind |-> IF add_ref THEN "adopt_ref" ELSE "adopt_noref",
            delta |-> rc'[n] - rc[n]]]
    /\ UNCHANGED << seqVars, artVars, nused, nloaded, nerror, npending, nfired, nseq, halive,
                    htuple, cbVars, thrVars >>

\* ArtistBrowser(sp_artistbrowse=n, add_ref=add_ref): adopt a native browse object
\* that exists; without add_ref the caller hands over a reference it owns
Adopt(b, n, add_ref) ==
    /\ NewBrowser(b)
    /\ nused[n] /\ rc[n] > 0
    /\ IF add_ref
         THEN /\ rc' = [rc EXCEPT ![n] = @ + 1]
              /\ loose' = loose
         ELSE /\ loose[n] > 0
              /\ loose' = [loose EXCEPT ![n] = @ - 1]
              /\ rc' = rc
    /\ browser' = [browser EXCEPT ![b] =
           [state |-> "alive", sp |-> n, event |-> NewEvent, handles |-> {},
            held |-> TRUE, kind |-> IF add_ref THEN "adopt_ref" ELSE "adopt_noref",
            delta |-> rc'[n] - rc[n]]]
    /\ UNCHANGED << seqVars, artVars, nused, nloaded, nerror, npending, nfired, nseq, halive,
                    htuple, cbVars, thrVars >>

\* code outside this module takes a reference of its own on a native browse object
\* (sp_artistbrowse_add_ref), which it may later hand to an adopting wrapper
TakeLoose(n) ==
    /\ nused[n] /\ rc[n] > 0
    /\ loose[n] < MaxLoose
    /\ loose' = [loose EXCEPT ![n] = @ + 1]
    /\ rc' = [rc EXCEPT ![n] = @ + 1]
    /\ UNCHANGED << seqVars, artVars, nused, nloaded, nerror, npending, nfired, nseq, brVars,
                    cbVars, thrVars >>

\* the consumer drops its last reference to the browser
DropRef(b) ==
    /\ browser[b].state = "alive" /\ browser[b].held
    /\ browser' = [browser EXCEPT ![b].held = FALSE]
    /\ UNCHANGED << seqVars, artVars, natVars, halive, htuple, cbVars, thrVars >>

\* who still refers to the browser object, the reference cycle through its own
\* _callback_handles set apart: the consumer, a thread inside load(), and the
\* callback's local artist_browser
Referenced(b) ==
    \/ browser[b].held
    \/ \E t \in Threads : thr[t].pc = "waiting" /\ thr[t].b = b
    \/ cb.pc \in {"remove", "set", "call"} /\ cb.browser = b

\* the garbage collector frees an unreferenced browser together with the handles in
\* its _callback_handles set; ffi.gc runs sp_artistbrowse_release.  The freed memory
\* keeps its contents.
Collect(b) ==
    /\ browser[b].state = "alive"
    /\ ~Referenced(b)
    /\ rc' = [rc EXCEPT ![browser[b].sp] = @ - 1]
    /\ browser' = [browser EXCEPT ![b].state = "dead",
                                  ![b].delta = @ + rc'[browser[b].sp] - rc[browser[b].sp]]
    /\ halive' = [h \in Browsers |-> halive[h] /\ h \notin browser[b].handles]
    /\ UNCHANGED << seqVars, artVars, nused, nloaded, nerror, npending, nfired, loose, nseq,
                    htuple, cbVars, thrVars >>

\* ------------------------------------------------------- the native SDK
\* the SDK completes the request behind native object n, with or without a backend
\* error: the object becomes loaded and the SDK thread enters the completion
\* callback with the request's userdata
SdkComplete(n, err) ==
    /\ cb.pc = "idle"
    /\ nused[n] /\ npending[n] # NULL /\ ~nfired[n]
    /\ nloaded' = [nloaded EXCEPT ![n] = TRUE]
    /\ nerror' = [nerror EXCEPT ![n] = err]
    /\ nfired' = [nfired EXCEPT ![n] = TRUE]
    /\ cb' = [IdleCb EXCEPT !.pc = "entry", !.h = npending[n], !.n = n]
    /\ UNCHANGED << seqVars, artVars, nused, rc, npending, loose, nseq, brVars, called,
                    warned, thrVars >>

\* an anomaly of the SDK: it invokes the completion callback with userdata NULL
SdkNullCall ==
    /\ cb.pc = "idle"
    /\ cb' = [IdleCb EXCEPT !.pc = "entry"]
    /\ UNCHANGED << seqVars, artVars, natVars, brVars, called, warned, thrVars >>

\* ------------------------------------- _artistbrowse_complete_callback
\* a fault of the callback: the test for NULL is missing, and a NULL token is given
\* to ffi.from_handle, which raises; nothing is logged
CbEntryUnchecked ==
    /\ cb.pc = "entry"
    /\ warned' = warned
    /\ IF cb.h = NULL
         THEN cb' = IdleCb
         ELSE \/ cb' = [cb EXCEPT !.pc = "remove", !.callback = htuple[cb.h][1],
                                  !.browser = htuple[cb.h][2]]
              \/ /\ ~halive[cb.h]
                 /\ cb' = IdleCb
    /\ UNCHANGED << seqVars, artVars, natVars, brVars, called, thrVars >>

\* lines 336-341: the NULL check, then ffi.from_handle(handle).  from_handle of a
\* handle that was freed is undefined: cffi reports a dead handle and the callback
\* ends there, or the freed memory is read as it was left.
CbEntry ==
    /\ cb.pc = "entry"
    /\ IF cb.h = NULL
         THEN /\ warned' = TRUE
              /\ cb' = IdleCb
         ELSE /\ warned' = warned
              /\ \/ cb' = [cb EXCEPT !.pc = "remove", !.callback = htuple[cb.h][1],
                                     !.browser = htuple[cb.h][2]]
                 \/ /\ ~halive[cb.h]
                    /\ cb' = IdleCb
    /\ UNCHANGED << seqVars, artVars, natVars, brVars, called, thrVars >>

\* a fault of the callback: the handle is left in _callback_handles
CbRemoveSkipped ==
    /\ cb.pc = "remove"
    /\ cb' = [cb EXCEPT !.pc = "set"]
    /\ UNCHANGED << seqVars, artVars, natVars, brVars, called, warned, thrVars >>

\* line 342: artist_browser._callback_handles.remove(handle); a KeyError ends the
\* callback
CbRemove ==
    /\ cb.pc = "remove"
    /\ IF cb.h \in browser[cb.browser].handles
         THEN /\ browser' = [browser EXCEPT ![cb.browser].handles = @ \ {cb.h}]
              /\ halive' = [halive EXCEPT ![cb.h] = FALSE]
              /\ cb' = [cb EXCEPT !.pc = "set"]
         ELSE /\ cb' = IdleCb
              /\ UNCHANGED << browser, halive >>
    /\ UNCHANGED << seqVars, artVars, natVars, htuple, called, warned, thrVars >>

\* a fault of the callback: the user callback is reached with complete_event not set
CbSetSkipped ==
    /\ cb.pc = "set"
    /\ cb' = [cb EXCEPT !.pc = "call"]
    /\ UNCHANGED << seqVars, artVars, natVars, brVars, called, warned, thrVars >>

\* line 343: artist_browser.complete_event.set()
CbSet ==
    /\ cb.pc = "set"
    /\ browser' = [browser EXCEPT ![cb.browser].event = TRUE]
    /\ cb' = [cb EXCEPT !.pc = "call"]
    /\ UNCHANGED << seqVars, artVars, natVars, halive, htuple, called, warned, thrVars >>

\* a fault of the callback: complete_event is cleared once the user callback is done
CbCallClears ==
    /\ cb.pc = "call"
    /\ called' = IF cb.callback = "None" THEN called
                 ELSE [called EXCEPT ![cb.browser] = Append(@,
                          [is_loaded |-> is_loaded(cb.browser),
                           event |-> browser[cb.browser].event,
                           registered |-> cb.h \in browser[cb.browser].handles])]
    /\ browser' = [browser EXCEPT ![cb.browser].event = FALSE]
    /\ cb' = IdleCb
    /\ UNCHANGED << seqVars, artVars, natVars, halive, htuple, warned, thrVars >>

\* lines 344-345: callback(artist_browser), if there is a callback.  The user
\* callback is recorded by what it can observe of the browser it is given.
CbCall ==
    /\ cb.pc = "call"
    /\ called' = IF cb.callback = "None" THEN called
                 ELSE [called EXCEPT ![cb.browser] = Append(@,
                          [is_loaded |-> is_loaded(cb.browser),
                           event |-> browser[cb.browser].event,
                           registered |-> cb.h \in browser[cb.browser].handles])]
    /\ cb' = IdleCb
    /\ UNCHANGED << seqVars, artVars, natVars, brVars, warned, thrVars >>

\* ------------------------------------------------------------- utils.load
\* load(timeout): return at once when the browser is loaded, else wait
Load(t, b, timeout) ==
    /\ thr[t].pc = "idle"
    /\ browser[b].state = "alive" /\ browser[b].held
    /\ thr' = [thr EXCEPT ![t] =
           IF is_loaded(b)
             THEN [IdleThread EXCEPT !.res = "returned", !.ret = b]
             ELSE [pc |-> "waiting", b |-> b, left |-> timeout, res |-> "none",
                   ret |-> NULL, waited |-> TRUE]]
    /\ UNCHANGED << seqVars, artVars, natVars, brVars, cbVars, session >>

\* the waiting thread sees is_loaded and returns the browser
LoadReturn(t) ==
    /\ thr[t].pc = "waiting"
    /\ is_loaded(thr[t].b)
    /\ thr' = [thr EXCEPT ![t] = [IdleThread EXCEPT !.res = "returned", !.ret = thr[t].b,
                                                    !.waited = TRUE]]
    /\ UNCHANGED << seqVars, artVars, natVars, brVars, cbVars, session >>

\* the deadline passes before the browser is loaded: Timeout
LoadTimeout(t) ==
    /\ thr[t].pc = "waiting"
    /\ ~is_loaded(thr[t].b)
    /\ thr[t].left = 0
    /\ thr' = [thr EXCEPT ![t] = [IdleThread EXCEPT !.res = "Timeout", !.waited = TRUE]]
    /\ UNCHANGED << seqVars, artVars, natVars, brVars, cbVars, session >>

\* the session is found logged out or disconnected while waiting, before the
\* deadline
LoadSessionError(t) ==
    /\ thr[t].pc = "waiting"
    /\ ~is_loaded(thr[t].b)
    /\ thr[t].left # 0
    /\ session = "down"
    /\ thr' = [thr EXCEPT ![t] = [IdleThread EXCEPT !.res = "BackendError",
                                                    !.waited = TRUE]]
    /\ UNCHANGED << seqVars, artVars, natVars, brVars, cbVars, session >>

\* time passes for a thread waiting with a deadline
Tick(t) ==
    /\ thr[t].pc = "waiting"
    /\ thr[t].left # NoTimeout /\ thr[t].left > 0
    /\ thr' = [thr EXCEPT ![t].left = @ - 1]
    /\ UNCHANGED << seqVars, artVars, natVars, brVars, cbVars, session >>

\* the client session is logged out or disconnected, for good
SessionDown ==
    /\ session = "ok"
    /\ session' = "down"
    /\ UNCHANGED << seqVars, artVars, natVars, brVars, cbVars, thr >>

\* ---------------------------------------------------- collection properties
\* the number of items the SDK reports for a collection of native object n
\* (sp_artistbrowse_num_tracks and the like): none before the object is loaded and
\* none when the request failed
sp_artistbrowse_num(n, len_func) ==
    IF nloaded[n] /\ nerror[n] = "OK" THEN MaxItems ELSE 0

NoItem == [type |-> "none", of |-> "none", sp |-> NULL, key |-> 0]

\* a call that raises: the exception stands in the place of the value
Raises(exc) == [NoItem EXCEPT !.type = exc]

\* the native object an accessor of the SDK returns for an index: the same object
\* for the same collection and index, whenever it is asked
NativeItem(type, of, n, key) == [type |-> type, of |-> of, sp |-> n, key |-> key]

\* lib.sp_image_create, called with the argument list args: the function takes the
\* session and the image id, as Artist.portrait calls it; cffi raises TypeError on
\* any other number of arguments
sp_image_create(args) ==
    IF Len(args) = 2 THEN [args[2] EXCEPT !.type = "sp_image"] ELSE Raises("TypeError")

\* get_image of portraits: sp_image_create is called with the image id alone
get_image(n, key) ==
    LET image_id == NativeItem("image_id", "portraits", n, key)
    IN sp_image_create(<< image_id >>)

\* get_track of tracks
get_track(n, key) == NativeItem("sp_track", "tracks", n, key)

\* get_track of tophit_tracks
get_tophit_track(n, key) == NativeItem("sp_track", "tophit_tracks", n, key)

\* get_album of albums
get_album(n, key) == NativeItem("sp_album", "albums", n, key)

\* get_artist of similar_artists
get_artist(n, key) == NativeItem("sp_artist", "similar_artists", n, key)

getitem(getitem_func, n, key) ==
    CASE getitem_func = "get_image" -> get_image(n, key)
      [] getitem_func = "get_track" -> get_track(n, key)
      [] getitem_func = "get_tophit_track" -> get_tophit_track(n, key)
      [] getitem_func = "get_album" -> get_album(n, key)
      [] getitem_func = "get_artist" -> get_artist(n, key)
      [] OTHER -> NoItem

\* utils.Sequence(sp_obj, add_ref_func, release_func, len_func, getitem_func): the
\* object keeps the native object and the two accessors
Sequence(sp_obj, len_func, getitem_func) ==
    [sp |-> sp_obj, len_func |-> len_func, getitem_func |-> getitem_func]

\* len(sequence): len_func is asked at every call
SeqLen(s) == sp_artistbrowse_num(s.sp, s.len_func)

\* sequence[i]: IndexError outside the range, else what getitem_func yields
SeqItem(s, i) ==
    IF i < 0 \/ i >= SeqLen(s) THEN Raises("IndexError")
    ELSE getitem(s.getitem_func, s.sp, i)

\* what a property read returned: the Python list [], or a new utils.Sequence
Returned(b, prop, type) == [b |-> b, prop |-> prop, type |-> type]

\* a fault of a collection property: the sequence is built without a reference of
\* its own on the native object
CollectionNoRef(b, prop, len_func, getitem_func) ==
    /\ browser[b].state = "alive" /\ browser[b].held
    /\ IF ~is_loaded(b)
         THEN /\ ret' = Returned(b, prop, "list")
              /\ UNCHANGED << seqs, nseq, rc >>
         ELSE /\ BagCardinality(seqs) < MaxSeqs
              /\ seqs' = seqs (+) SetToBag({Sequence(browser[b].sp, len_func,
                                                      getitem_func)})
              /\ nseq' = [nseq EXCEPT ![browser[b].sp] = @ + 1]
              /\ rc' = rc
              /\ ret' = Returned(b, prop, "Sequence")
    /\ UNCHANGED << artVars, nused, nloaded, nerror, npending, nfired, loose, brVars,
                    cbVars, thrVars >>

\* a fault of a collection property: the is_loaded test is missing
CollectionUnchecked(b, prop, len_func, getitem_func) ==
    /\ browser[b].state = "alive" /\ browser[b].held
    /\ BagCardinality(seqs) < MaxSeqs
    /\ seqs' = seqs (+) SetToBag({Sequence(browser[b].sp, len_func, getitem_func)})
    /\ nseq' = [nseq EXCEPT ![browser[b].sp] = @ + 1]
    /\ rc' = [rc EXCEPT ![browser[b].sp] = @ + 1]
    /\ ret' = Returned(b, prop, "Sequence")
    /\ UNCHANGED << artVars, nused, nloaded, nerror, npending, nfired, loose, brVars,
                    cbVars, thrVars >>

\* the body the five collection properties share: [] when the browser is not
\* loaded, else a new utils.Sequence, which takes a reference of its own on the
\* native object (add_ref_func)
Collection(b, prop, len_func, getitem_func) ==
    /\ browser[b].state = "alive" /\ browser[b].held
    /\ IF ~is_loaded(b)
         THEN /\ ret' = Returned(b, prop, "list")
              /\ UNCHANGED << seqs, nseq, rc >>
         ELSE /\ BagCardinality(seqs) < MaxSeqs
              /\ seqs' = seqs (+) SetToBag({Sequence(browser[b].sp, len_func,
                                                      getitem_func)})
              /\ nseq' = [nseq EXCEPT ![browser[b].sp] = @ + 1]
              /\ rc' = [rc EXCEPT ![browser[b].sp] = @ + 1]
              /\ ret' = Returned(b, prop, "Sequence")
    /\ UNCHANGED << artVars, nused, nloaded, nerror, npending, nfired, loose, brVars,
                    cbVars, thrVars >>

\* ArtistBrowser.portraits
portraits(b) == Collection(b, "portraits", "num_portraits", "get_image")

\* ArtistBrowser.tracks
tracks(b) == Collection(b, "tracks", "num_tracks", "get_track")

\* ArtistBrowser.tophit_tracks
tophit_tracks(b) == Collection(b, "tophit_tracks", "num_tophit_tracks", "get_tophit_track")

\* ArtistBrowser.albums
albums(b) == Collection(b, "albums", "num_albums", "get_album")

\* ArtistBrowser.similar_artists
similar_artists(b) ==
    Collection(b, "similar_artists", "num_similar_artists", "get_artist")

\* a utils.Sequence on native object n is collected: its release_func runs
SeqRelease(n) ==
    /\ \E s \in BagToSet(seqs) :
          /\ s.sp = n
          /\ seqs' = seqs (-) SetToBag({s})
    /\ nseq' = [nseq EXCEPT ![n] = @ - 1]
    /\ rc' = [rc EXCEPT ![n] = @ - 1]
    /\ UNCHANGED << ret, artVars, nused, nloaded, nerror, npending, nfired, loose,
                    brVars, cbVars, thrVars >>

\* ------------------------------------------------------------ specifications
\* the completion protocol: browsing an artist, adopting a native browse object,
\* letting go of a browser, the SDK completing a request, the completion callback
Next ==
    \/ \E a \in ArtistSlots, b \in Browsers, c \in {"None", "cb"} : Browse(a, b, c)
    \/ \E b \in Browsers, n \in Natives, r \in BOOLEAN : Adopt(b, n, r)
    \/ \E n \in Natives : TakeLoose(n)
    \/ \E b \in Browsers : DropRef(b)
    \/ \E b \in Browsers : Collect(b)
    \/ \E n \in Natives, e \in {"OK", "ERR"} : SdkComplete(n, e)
    \/ SdkNullCall
    \/ CbEntry
    \/ CbRemove
    \/ CbSet
    \/ CbCall

Spec == InitArtist /\ [][Next]_vars

\* the consumer threads in load()
NextLoad ==
    \/ \E a \in ArtistSlots, b \in Browsers : Browse(a, b, "None")
    \/ \E b \in Browsers, n \in Natives : Adopt(b, n, TRUE)
    \/ \E n \in Natives, e \in {"OK", "ERR"} : SdkComplete(n, e)
    \/ CbEntry
    \/ CbRemove
    \/ CbSet
    \/ CbCall
    \/ \E t \in Threads, b \in Browsers, d \in 0 .. NoTimeout : Load(t, b, d)
    \/ \E t \in Threads : LoadReturn(t)
    \/ \E t \in Threads : LoadTimeout(t)
    \/ \E t \in Threads : LoadSessionError(t)
    \/ \E t \in Threads : Tick(t)
    \/ SessionDown

SpecLoad == InitArtist /\ [][NextLoad]_vars

\* threads are scheduled and time passes: a waiting thread that can return or time
\* out does so in the end, and its deadline comes
SpecLoadFair ==
    /\ InitArtist /\ [][NextLoad]_vars
    /\ \A t \in Threads :
          WF_vars(LoadReturn(t)) /\ WF_vars(LoadTimeout(t)) /\ WF_vars(Tick(t))

\* the native reference counts
NextRef ==
    \/ \E a \in ArtistSlots, uri \in {"artist", "track"} : ArtistFromUri(a, uri)
    \/ CollectTemp
    \/ \E a \in ArtistSlots, b \in Browsers : ArtistFromNative(a, b)
    \/ \E a \in ArtistSlots : CollectArtist(a)
    \/ \E a \in ArtistSlots, b \in Browsers : Browse(a, b, "None")
    \/ \E b \in Browsers, n \in Natives, r \in BOOLEAN : Adopt(b, n, r)
    \/ \E n \in Natives : TakeLoose(n)
    \/ \E b \in Browsers : DropRef(b)
    \/ \E b \in Browsers : Collect(b)
    \/ \E n \in Natives : SdkComplete(n, "OK")
    \/ CbEntry
    \/ CbRemove
    \/ CbSet
    \/ CbCall

SpecRef == Init /\ [][NextRef]_vars

\* the constructor step by step, beside the SDK thread and the collector
NextCtor ==
    \/ \E a \in ArtistSlots, b \in Browsers, c \in {"None", "cb"} : BrowseBegin(a, b, c)
    \/ \E b \in Browsers : BrowseCreate(b)
    \/ \E b \in Browsers, n \in Natives, r \in BOOLEAN : Adopt(b, n, r)
    \/ \E n \in Natives : TakeLoose(n)
    \/ \E b \in Browsers : DropRef(b)
    \/ \E b \in Browsers : Collect(b)
    \/ \E n \in Natives, e \in {"OK", "ERR"} : SdkComplete(n, e)
    \/ SdkNullCall
    \/ CbEntry
    \/ CbRemove
    \/ CbSet
    \/ CbCall

SpecCtor == InitArtist /\ [][NextCtor]_vars

\* the collection properties and the sequences they return, over browsers that are
\* made, completed, let go and collected
NextSeq ==
    \/ \E a \in ArtistSlots, b \in Browsers : Browse(a, b, "None")
    \/ \E b \in Browsers : DropRef(b)
    \/ \E b \in Browsers : Collect(b)
    \/ \E n \in Natives, e \in {"OK", "ERR"} : SdkComplete(n, e)
    \/ CbEntry
    \/ CbRemove
    \/ CbSet
    \/ CbCall
    \/ \E b \in Browsers : portraits(b)
    \/ \E b \in Browsers : tracks(b)
    \/ \E b \in Browsers : tophit_tracks(b)
    \/ \E b \in Browsers : albums(b)
    \/ \E b \in Browsers : similar_artists(b)
    \/ \E n \in Natives : SeqRelease(n)

SpecSeq == InitArtist /\ [][NextSeq]_vars

\* ------------------------------------------------------------------ claims
Alive(b) == browser[b].state = "alive"

\* the SDK has invoked the completion callback with the token of browser b
CallbackFired(b) == \E n \in Natives : npending[n] = b /\ nfired[n]

\* C1: in every run of the completion callback with a non-null token the handle is
\* removed from the browser's _callback_handles before complete_event is set, and
\* complete_event is set before the user callback runs; the user callback finds the
\* handle removed, the event set and is_loaded true.
C1_CallbackOrder ==
    /\ cb.pc \in {"set", "call"} => cb.h \notin browser[cb.browser].handles
    /\ cb.pc = "call" => browser[cb.browser].event /\ is_loaded(cb.browser)
    /\ \A b \in Browsers : \A i \in 1 .. Len(called[b]) :
          /\ ~called[b][i].registered
          /\ called[b][i].event
          /\ called[b][i].is_loaded

C1_Witness == \E b \in Browsers : Len(called[b]) > 0 /\ browser[b].event

\* C2: whenever the completion callback is entered with the token of a browser, the
\* handle behind the token and the browser it refers to still exist.
C2_ContextAlive ==
    (cb.pc = "entry" /\ cb.h # NULL) =>
        halive[cb.h] /\ browser[htuple[cb.h][2]].state = "alive"

\* C3 as claimed: every wrapper that has been destroyed has changed the reference
\* count of its native object by zero over its life, and the native count is the
\* number of references held for live wrappers and by their other owners.
C3_NetZero ==
    /\ \A b \in Browsers : browser[b].state = "dead" => browser[b].delta = 0
    /\ \A a \in ArtistSlots : artists[a].state = "dead" => artists[a].delta = 0

\* references held on native browse object n: one per live wrapper of it, the ones
\* owned outside the wrappers, and one per live sequence
HeldOn(n) ==
    Cardinality({b \in Browsers : Alive(b) /\ browser[b].sp = n}) + loose[n] + nseq[n]

\* references held on the native artist: one per live Artist, one more for each
\* that keeps the cdata of its as_artist wrapper, and the ones awaiting release
RECURSIVE ArtistRefs(_)
ArtistRefs(S) ==
    IF S = {} THEN 0
    ELSE LET a == CHOOSE x \in S : TRUE
         IN (IF artists[a].state = "alive" THEN 1 + artists[a].pins ELSE 0)
            + ArtistRefs(S \ {a})

\* C3, amended: a destroyed wrapper has changed the count by zero, except a browser
\* that adopted a handle without add_ref, which has changed it by -1; every
\* reference is released once, at the destruction of its wrapper and not before:
\* the native counts are exactly the references still held.
C3_RefBalance ==
    /\ \A b \in Browsers : browser[b].state = "dead" =>
          browser[b].delta = IF browser[b].kind = "adopt_noref" THEN 0 - 1 ELSE 0
    /\ \A a \in ArtistSlots : artists[a].state = "dead" => artists[a].delta = 0
    /\ \A n \in Natives : rc[n] = HeldOn(n)
    /\ art_rc = ArtistRefs(ArtistSlots) + temps

C3_Witness ==
    /\ \E b \in Browsers : browser[b].state = "dead" /\ browser[b].kind = "adopt_noref"
    /\ \E b \in Browsers : browser[b].state = "dead" /\ browser[b].kind = "browse"
    /\ \E a \in ArtistSlots : artists[a].state = "dead"

\* C4: for every live browser, complete_event set implies is_loaded.
C4_SignalImpliesLoaded ==
    \A b \in Browsers : (Alive(b) /\ browser[b].event) => is_loaded(b)

C4_Witness == \E b \in Browsers : Alive(b) /\ browser[b].event /\ is_loaded(b)

\* C5: is_loaded is monotonic: a browser that reads loaded reads loaded after every
\* step, for as long as it lives.
C5_LoadedMonotonic ==
    [][\A b \in Browsers :
          (Alive(b) /\ is_loaded(b)) => (browser'[b].state = "alive" => is_loaded(b)')]_vars

C5_Witness ==
    \E b \in Browsers : Alive(b) /\ is_loaded(b) /\ browser[b].event
                        /\ \E t \in Threads : thr[t].res = "returned" /\ thr[t].ret = b

\* C6 as claimed: every live browser, however constructed, reads not loaded until
\* the completion callback has fired for it.
C6_FalseUntilCallback ==
    \A b \in Browsers : (Alive(b) /\ ~CallbackFired(b)) => ~is_loaded(b)

\* C6, amended: a live browser made by Artist.browse reads not loaded until the
\* completion callback has fired for it.
C6_BrowseFalseUntilCallback ==
    \A b \in Browsers :
        (Alive(b) /\ browser[b].kind = "browse" /\ ~CallbackFired(b)) => ~is_loaded(b)

C6_Witness ==
    \E b, c \in Browsers :
        /\ Alive(b) /\ browser[b].kind = "browse" /\ ~CallbackFired(b) /\ ~is_loaded(b)
        /\ Alive(c) /\ browser[c].kind # "browse" /\ browser[c].sp = browser[b].sp

\* the native state of the object behind browser b
NativeLoaded(b) == nloaded[browser[b].sp]

\* thread t takes a step of load() that starts a call: the browser it is called on
Calls(t) == thr[t].pc = "idle" /\ thr'[t] # thr[t]

CalledOn(t) == IF thr'[t].pc = "waiting" THEN thr'[t].b ELSE thr'[t].ret

\* C7: a thread that waits in load() on a browser made by Artist.browse, once the
\* completion callback has fired for the browser, gets the browser returned.
C7_LoadUnblocks ==
    \A t \in Threads : \A b \in Browsers :
        (thr[t].pc = "waiting" /\ thr[t].b = b /\ browser[b].kind = "browse"
            /\ CallbackFired(b))
        ~> (thr[t].res = "returned" /\ thr[t].ret = b)

C7_Witness ==
    \E t \in Threads :
        /\ thr[t].res = "returned" /\ thr[t].waited
        /\ browser[thr[t].ret].kind = "browse" /\ CallbackFired(thr[t].ret)

C9_TimeoutRecoverable ==
    /\ \A t \in Threads :
          (thr[t].pc = "waiting" /\ thr[t].left # NoTimeout) ~> (thr[t].pc = "idle")
    /\ [][\A t \in Threads :
             (thr[t].pc = "waiting" /\ thr[t].left = 0 /\ ~NativeLoaded(thr[t].b)
                 /\ thr'[t] # thr[t])
             => /\ thr'[t].pc = "idle" /\ thr'[t].res = "Timeout"
                /\ UNCHANGED << natVars, brVars >>]_vars
    /\ [][\A t \in Threads :
             (Calls(t) /\ thr[t].res = "Timeout" /\ CallbackFired(CalledOn(t)))
             => thr'[t].res = "returned" /\ thr'[t].ret = CalledOn(t)]_vars

C9_Witness ==
    /\ \E t \in Threads : thr[t].res = "Timeout"
    /\ \E b \in Browsers : Alive(b) /\ browser[b].handles = {b} /\ ~browser[b].event
                           /\ ~is_loaded(b)

\* C10: a load called on a browser whose completion callback has fired returns the
\* browser in the same step, without waiting, whatever the timeout.
C10_LoadAfterCompletion ==
    [][\A t \in Threads :
          (Calls(t) /\ CallbackFired(CalledOn(t)) /\ NativeLoaded(CalledOn(t)))
          => /\ thr'[t].pc = "idle" /\ thr'[t].res = "returned"
             /\ thr'[t].ret = CalledOn(t) /\ ~thr'[t].waited]_vars

C10_Witness ==
    \E t \in Threads :
        /\ thr[t].res = "returned" /\ ~thr[t].waited
        /\ CallbackFired(thr[t].ret) /\ browser[thr[t].ret].event

\* the live sequences on native object n
SeqsOn(n) ==
    LET S == {s \in BagToSet(seqs) : s.sp = n}
    IN IF S = {} THEN 0 ELSE BagCardinality([s \in S |-> CopiesIn(s, seqs)])

\* the value is an exception that was raised, not an object
IsException(v) == v.type \in {"TypeError", "IndexError"}

\* C11: a read of a collection property on a browser that is not loaded returns the
\* list [] and leaves the sequences and the reference counts as they are; a read on
\* a loaded browser returns one new sequence over the browser's native object, which
\* holds one more reference on it.  No sequence exists on a native object that is
\* not loaded.
C11_EmptyUntilLoaded ==
    [][/\ (ret' # ret \/ seqs' # seqs) =>
            \/ /\ BagCardinality(seqs') < BagCardinality(seqs)
               /\ ret' = ret
            \/ /\ Alive(ret'.b) /\ ~is_loaded(ret'.b)
               /\ ret'.type = "list"
               /\ UNCHANGED << seqs, rc, nseq >>
            \/ /\ Alive(ret'.b) /\ is_loaded(ret'.b)
               /\ ret'.type = "Sequence"
               /\ \E s \in BagToSet(seqs') :
                     /\ s.sp = browser[ret'.b].sp
                     /\ seqs' = seqs (+) SetToBag({s})
                     /\ rc' = [rc EXCEPT ![s.sp] = @ + 1]
       /\ \A s \in BagToSet(seqs') : nloaded'[s.sp]]_vars

C11_Witness ==
    /\ ret.type = "list" /\ ret.prop = "similar_artists"
    /\ Alive(ret.b) /\ ~is_loaded(ret.b)
    /\ seqs = EmptyBag /\ rc[browser[ret.b].sp] = 1

\* C12: a construction of an Artist from a URI that denotes no artist leaves no
\* wrapper, and that step changes no reference count, no native object and no
\* browser; a reference on the native artist is added only by a step that builds a
\* wrapper, and a browse request is issued only for an Artist that exists.
C12_BadUriFails ==
    [][/\ \A a \in ArtistSlots :
             (artists'[a].state = "failed" /\ artists'[a] # artists[a]) =>
                /\ artists'[a] = [NoArtist EXCEPT !.state = "failed"]
                /\ \A x \in ArtistSlots : x # a => artists'[x] = artists[x]
                /\ UNCHANGED << art_rc, temps, natVars, brVars >>
       /\ art_rc' > art_rc =>
             \E a \in ArtistSlots : artists'[a].state = "alive" /\ artists'[a] # artists[a]
       /\ nused' # nused => \E a \in ArtistSlots : artists[a].state = "alive"]_vars

C12_Witness ==
    /\ \E a \in ArtistSlots : artists[a].state = "failed"
    /\ \A a \in ArtistSlots : artists[a].state # "alive"
    /\ \A b \in Browsers : browser[b].state = "free"
    /\ art_rc = 0 /\ \A n \in Natives : ~nused[n]

\* C13: the step the callback takes when it was entered with a NULL token logs the
\* warning and ends the callback; it changes no browser, no handle, no
\* complete_event, no native object, and calls no user callback.  The SDK's call
\* with NULL itself changes nothing but the position of the SDK thread.
C13_NullTokenHarmless ==
    [][/\ (cb.pc = "entry" /\ cb.h = NULL /\ cb' # cb) =>
             /\ cb' = IdleCb
             /\ warned'
             /\ UNCHANGED << artVars, natVars, brVars, called, thrVars, seqVars >>
       /\ (cb.pc = "idle" /\ cb'.pc = "entry" /\ cb'.h = NULL) =>
             UNCHANGED << artVars, natVars, brVars, called, warned, thrVars, seqVars >>
       /\ ~warned /\ warned' => cb.pc = "entry" /\ cb.h = NULL]_vars

C13_Witness ==
    /\ warned /\ cb.pc = "idle"
    /\ \E b \in Browsers : Alive(b) /\ browser[b].handles = {b} /\ ~browser[b].event
    /\ \A b \in Browsers : called[b] = << >>

\* C14: complete_event is one-shot: no step takes a browser's complete_event from
\* set to clear, and a browser's complete_event is the same object for its life.
C14_SignalOneShot ==
    [][\A b \in Browsers : browser[b].event => browser'[b].event]_vars

C14_Witness ==
    \E b \in Browsers :
        /\ Alive(b) /\ browser[b].event /\ ~browser[b].held
        /\ cb.pc = "idle" /\ Len(called[b]) = 1

\* C15: two sequences that two reads of one collection property of a loaded
\* browser returned report the same length, and at every index below it each
\* yields an element, the same native object from both.
C15_RepeatableReads ==
    \A s \in BagToSet(seqs) :
        CopiesIn(s, seqs) >= 2 =>
            \A i \in 0 .. (SeqLen(s) - 1) :
                /\ ~IsException(SeqItem(s, i))
                /\ SeqItem(s, i).sp = s.sp /\ SeqItem(s, i).key = i

\* the completion callback has run for the token of browser b up to and past the
\* removal of its handle
Deregistered(b) == CallbackFired(b) /\ ~(cb.h = b /\ cb.pc \in {"entry", "remove"})

\* C16: the _callback_handles set of a browser that exists holds at most one
\* handle: the one handle of its request, from Artist.browse until the completion
\* callback run for that token removes it, and none after; a browser that adopted
\* a native handle holds none.  The set changes by that removal only.
C16_OneRegistration ==
    /\ [](\A b \in Browsers : Alive(b) =>
             /\ Cardinality(browser[b].handles) <= 1
             /\ browser[b].kind = "browse" =>
                   browser[b].handles = IF Deregistered(b) THEN {} ELSE {b}
             /\ browser[b].kind # "browse" => browser[b].handles = {})
    /\ [][\A b \in Browsers :
             (Alive(b) /\ browser'[b].handles # browser[b].handles) =>
                /\ cb.pc = "remove" /\ cb.h = b /\ cb.browser = b
                /\ browser'[b].handles = {}]_vars

C16_Witness ==
    \E b \in Browsers :
        /\ Alive(b) /\ browser[b].kind = "browse" /\ browser[b].handles = {}
        /\ Deregistered(b) /\ cb.pc = "idle" /\ ~halive[b]

\* C17: the handle is in the browser's _callback_handles before the step that
\* hands it to sp_artistbrowse_create; the completion callback is not entered for a
\* handle before that step; and when the callback reaches the removal the handle is
\* in the set of the browser it names, so the removal does not raise KeyError.
C17_InsertBeforeCreate ==
    /\ [][\A n \in Natives :
             npending'[n] # npending[n] =>
                /\ npending'[n] \in browser[npending'[n]].handles
                /\ halive[npending'[n]]
                /\ ~nfired[n]]_vars
    /\ [](\A b \in Browsers :
             browser[b].state = "init" =>
                /\ cb.h # b
                /\ \A n \in Natives : npending[n] # b)
    /\ [](cb.pc = "remove" => cb.h \in browser[cb.browser].handles)
    /\ [][(cb.pc = "remove" /\ cb' # cb) => cb'.pc = "set"]_vars

C17_Witness ==
    /\ cb.pc = "set" /\ cb.h # NULL /\ cb.h \notin browser[cb.browser].handles
    /\ Alive(cb.browser) /\ nfired[browser[cb.browser].sp]

\* the completion callback has run for the token of browser b, and the run is over
CallbackDone(b) == CallbackFired(b) /\ ~(cb.h = b /\ cb.pc # "idle")

\* C18: for every browser made by Artist.browse, the user callback is not invoked
\* before the completion callback fires for the browser's token and is invoked at
\* most once; once the run of the completion callback for the token is over, a
\* callback that was given has been invoked once, with that browser, and with no
\* callback given nothing was invoked and complete_event is set.
C18_CallbackExactlyOnce ==
    \A b \in Browsers :
        browser[b].kind = "browse" =>
            /\ ~CallbackFired(b) => called[b] = << >>
            /\ Len(called[b]) <= 1
            /\ CallbackDone(b) =>
                  IF htuple[b][1] = "None"
                    THEN called[b] = << >> /\ browser[b].event
                    ELSE Len(called[b]) = 1

\* the live browser wrappers of native object n
WrappersOn(n) == {b \in Browsers : Alive(b) /\ browser[b].sp = n}

\* C19: the reference count of a native browse object is the number of its live
\* wrappers and live sequences, each holding one reference from its construction to
\* its destruction; so the count is at least one while a wrapper or a sequence of
\* the object lives, whichever is destroyed first.
C19_SequenceKeepsNative ==
    \A n \in Natives :
        /\ nseq[n] = SeqsOn(n)
        /\ rc[n] = Cardinality(WrappersOn(n)) + loose[n] + SeqsOn(n)
        /\ (WrappersOn(n) # {} \/ SeqsOn(n) > 0) => rc[n] >= 1

C19_Witness ==
    \E n \in Natives :
        /\ WrappersOn(n) = {} /\ SeqsOn(n) = 1 /\ rc[n] = 1
        /\ \E b \in Browsers : browser[b].state = "dead" /\ browser[b].sp = n

\* browser b was built by adopting a native browse handle
Adopted(b) == browser[b].kind \in {"adopt_ref", "adopt_noref"}

====
